---- MODULE Spec2Model ----
(***************************************************************************)
(* A model of odata/connection.py: the ODataConnection transport client.   *)
(*                                                                         *)
(* A client owns a session (its own, with a retrying adapter mounted on    *)
(* "https://", or one supplied by the caller) and offers execute_get,      *)
(* execute_post, execute_patch and execute_delete.  A call assembles its   *)
(* headers, dispatches through _do (which turns requests' exceptions into  *)
(* ODataConnectionError), runs _handle_odata_error on the response and     *)
(* then interprets the body.                                                *)
(*                                                                         *)
(* Python values are modelled as tagged records, Python exceptions raised  *)
(* while a statement runs as the outcome "raise" of the call.  Strings are *)
(* TLA+ strings: "a in b" is the substring test, "{0}".format and join are *)
(* concatenation.                                                           *)
(***************************************************************************)
EXTENDS Integers, Sequences, FiniteSets, TLC

(***************************************************************************)
(* Bounds of the model.                                                    *)
(***************************************************************************)
\* Number of ODataConnection instances that share the class's base_headers.
NumClients == 2

Clients == 1..NumClients

(***************************************************************************)
(* Python and JSON values.                                                 *)
(***************************************************************************)
\* The values json.loads produces: None, str, int, list, dict.
JNull == [t |-> "null"]

JStr(s) == [t |-> "str", s |-> s]

JNum(n) == [t |-> "num", n |-> n]

JArr(items) == [t |-> "arr", items |-> items]

JObj(m) == [t |-> "obj", m |-> m]

\* Python's None is what a bare "return" yields and what JSON null decodes to.
PyNone == JNull

\* "sub in s" for two str values: s has a slice equal to sub.
Contains(sub, s) ==
    \E i \in 1..(Len(s) - Len(sub) + 1) : SubSeq(s, i, i + Len(sub) - 1) = sub

\* bool(v): None, "", 0, [] and {} are falsy.
Truthy(v) ==
    CASE v.t = "null" -> FALSE
      [] v.t = "str" -> v.s # ""
      [] v.t = "num" -> v.n # 0
      [] v.t = "arr" -> v.items # << >>
      [] v.t = "obj" -> DOMAIN v.m # {}

\* "key in v" for a str key: "True", "False", or the exception it raises.
PyIn(key, v) ==
    CASE v.t = "obj" -> IF key \in DOMAIN v.m THEN "True" ELSE "False"
      [] v.t = "arr" -> IF \E i \in DOMAIN v.items : v.items[i] = JStr(key)
                        THEN "True" ELSE "False"
      [] v.t = "str" -> IF Contains(key, v.s) THEN "True" ELSE "False"
      [] OTHER -> "TypeError"

\* v.get(key): only a dict has get; a missing key gives None.
PyGet(v, key) ==
    IF v.t # "obj" THEN [exc |-> "AttributeError", value |-> PyNone]
    ELSE [exc |-> "",
          value |-> IF key \in DOMAIN v.m THEN v.m[key] ELSE PyNone]

\* v[key] for a str key: a dict looks the key up, a str or list rejects a
\* str index, anything else is not subscriptable.
PyIndex(v, key) ==
    IF v.t = "obj"
    THEN IF key \in DOMAIN v.m THEN [exc |-> "", value |-> v.m[key]]
         ELSE [exc |-> "KeyError", value |-> PyNone]
    ELSE [exc |-> "TypeError", value |-> PyNone]

\* "a or b".
PyOr(a, b) == IF Truthy(a) THEN a ELSE b

\* dict.update: the keys of d2 are added to d1 and override it.
DictUpdate(d1, d2) ==
    [k \in DOMAIN d1 \cup DOMAIN d2 |-> IF k \in DOMAIN d2 THEN d2[k] ELSE d1[k]]

\* mapping.get(key, default), as used on response.headers.
HeadersGet(h, key, default) == IF key \in DOMAIN h THEN h[key] ELSE default

(***************************************************************************)
(* Exceptions.                                                             *)
(***************************************************************************)
\* An exception object: its class, str(e), and the attributes set on it.
Exc(class, msg) == [class |-> class, msg |-> msg, attrs |-> << >>]

NoExc == Exc("", "")

ODataError(msg) == Exc("ODataError", msg)

ODataConnectionError(msg) == Exc("ODataConnectionError", msg)

\* The classes of requests.exceptions.RequestException the transport raises.
RequestExceptionClasses ==
    {"ConnectionError", "ReadTimeout", "SSLError", "RetryError"}

IsRequestException(e) == e.class \in RequestExceptionClasses


\* An error the interpreter raises itself while a statement runs.
PyError(class) == Exc(class, class)

(***************************************************************************)
(* Responses.                                                              *)
(***************************************************************************)
\* requests.codes.no_content
NoContent == 204

\* A body whose text does not parse as JSON, and one that parses to v.
MalformedBody == [valid |-> FALSE, value |-> PyNone]

JsonBody(v) == [valid |-> TRUE, value |-> v]

\* response.json(): the decoded body, or JSONDecodeError.
ResponseJson(r) ==
    IF r.body.valid THEN [exc |-> "", value |-> r.body.value]
    ELSE [exc |-> "JSONDecodeError", value |-> PyNone]

\* response.raise_for_status() raises HTTPError for a 4xx or 5xx status.
RaiseForStatusRaises(r) == 400 <= r.status /\ r.status < 600

\* response.headers.get("content-type", "")
ResponseCt(r) == HeadersGet(r.headers, "content-type", "")

(***************************************************************************)
(* _handle_odata_error                                                     *)
(***************************************************************************)
\* MemberOr with the assignment lost: x stays as it was.
MemberOrKeepsDefault(obj, key, x) ==
    LET has == PyIn(key, obj)
        got == PyGet(obj, key)
    IN  IF has = "TypeError" THEN [exc |-> "TypeError", value |-> x]
        ELSE IF has = "False" THEN [exc |-> "", value |-> x]
        ELSE IF got.exc # "" THEN [exc |-> got.exc, value |-> x]
        ELSE [exc |-> "", value |-> x]

\* "if key in obj: x = obj.get(key) or x": the new x, or the exception.
MemberOr(obj, key, x) ==
    LET has == PyIn(key, obj)
        got == PyGet(obj, key)
    IN  IF has = "TypeError" THEN [exc |-> "TypeError", value |-> x]
        ELSE IF has = "False" THEN [exc |-> "", value |-> x]
        ELSE IF got.exc # "" THEN [exc |-> got.exc, value |-> x]
        ELSE [exc |-> "", value |-> PyOr(got.value, x)]

\* "if 'innererror' in obj: ie = obj['innererror'];
\*  x = ie.get('message') or x"
InnerErrorOr(obj, x) ==
    LET has == PyIn("innererror", obj)
        ie == PyIndex(obj, "innererror")
        got == PyGet(ie.value, "message")
    IN  IF has = "TypeError" THEN [exc |-> "TypeError", value |-> x]
        ELSE IF has = "False" THEN [exc |-> "", value |-> x]
        ELSE IF ie.exc # "" THEN [exc |-> ie.exc, value |-> x]
        ELSE IF got.exc # "" THEN [exc |-> got.exc, value |-> x]
        ELSE [exc |-> "", value |-> PyOr(got.value, x)]

DefaultCode == JStr("None")

DefaultMessage == JStr("Server did not supply any error messages")

DefaultDetailedMessage == JStr("None")

\* The three fields when nothing is taken from the body.
DefaultFields ==
    [exc |-> "", code |-> DefaultCode, message |-> DefaultMessage,
     detailed_message |-> DefaultDetailedMessage]

FieldsFail(class) == [DefaultFields EXCEPT !.exc = class]

\* Lines 89-98: code, message and detailed message out of the decoded body;
\* exc names the exception the first failing statement raises.
ErrorFields(errordata) ==
    LET has == PyIn("error", errordata)
        got == PyGet(errordata, "error")
        odata_error == got.value
        c == MemberOr(odata_error, "code", DefaultCode)
        m == MemberOr(odata_error, "message", DefaultMessage)
        d == InnerErrorOr(odata_error, DefaultDetailedMessage)
    IN  IF has = "TypeError" THEN FieldsFail("TypeError")
        ELSE IF has = "False" THEN DefaultFields
        ELSE IF got.exc # "" THEN FieldsFail(got.exc)
        ELSE IF c.exc # "" THEN FieldsFail(c.exc)
        ELSE IF m.exc # "" THEN FieldsFail(m.exc)
        ELSE IF d.exc # "" THEN FieldsFail(d.exc)
        ELSE [exc |-> "", code |-> c.value, message |-> m.value,
              detailed_message |-> d.value]

\* " | ".join(parts) for a list of str.
JoinBar(parts) ==
    parts[1] \o " | " \o parts[2] \o " | " \o parts[3] \o " | " \o parts[4]

\* Lines 100-106: the ODataError with its four attributes; join raises
\* TypeError when an item is not a str.
MakeODataError(status_code, f) ==
    IF f.code.t # "str" \/ f.message.t # "str" \/ f.detailed_message.t # "str"
    THEN PyError("TypeError")
    ELSE [ODataError(JoinBar(<<status_code, f.code.s, f.message.s,
                               f.detailed_message.s>>))
          EXCEPT !.attrs = [status_code |-> status_code,
                            code |-> f.code.s,
                            message |-> f.message.s,
                            detailed_message |-> f.detailed_message.s]]

\* _handle_odata_error(response): the exception it raises (NoExc when it
\* returns) and whether response.json() was called.
HandleODataError(r) ==
    LET status_code == "HTTP " \o ToString(r.status)
        json == ResponseJson(r)
        f == ErrorFields(json.value)
    IN  IF ~RaiseForStatusRaises(r) THEN [exc |-> NoExc, decoded |-> FALSE]
        ELSE IF ~Contains("application/json", ResponseCt(r))
        THEN [exc |-> MakeODataError(status_code, DefaultFields),
              decoded |-> FALSE]
        ELSE IF json.exc # "" THEN [exc |-> PyError(json.exc), decoded |-> TRUE]
        ELSE IF f.exc # "" THEN [exc |-> PyError(f.exc), decoded |-> TRUE]
        ELSE [exc |-> MakeODataError(status_code, f), decoded |-> TRUE]

(***************************************************************************)
(* The outcome of a call, and what each verb does with the response.       *)
(***************************************************************************)
Pending == [kind |-> "none", value |-> PyNone, exc |-> NoExc, decoded |-> FALSE]

Returned(v, decoded) ==
    [kind |-> "return", value |-> v, exc |-> NoExc, decoded |-> decoded]

Raised(e, decoded) ==
    [kind |-> "raise", value |-> PyNone, exc |-> e, decoded |-> decoded]

UnsupportedMsg(ct) == "Unsupported response Content-Type: " \o ct

\* execute_get ending the way execute_post does: no exception for a
\* content-type it cannot read.
ExecuteGetResultLenient(r) ==
    LET h == HandleODataError(r)
        json == ResponseJson(r)
    IN  IF h.exc.class # "" THEN Raised(h.exc, h.decoded)
        ELSE IF r.status = NoContent THEN Returned(PyNone, FALSE)
        ELSE IF Contains("application/json", ResponseCt(r))
        THEN IF json.exc # "" THEN Raised(PyError(json.exc), TRUE)
             ELSE Returned(json.value, TRUE)
        ELSE Returned(PyNone, FALSE)

\* execute_get looking at the content-type before the no-content status.
ExecuteGetResultCtFirst(r) ==
    LET h == HandleODataError(r)
        json == ResponseJson(r)
    IN  IF h.exc.class # "" THEN Raised(h.exc, h.decoded)
        ELSE IF Contains("application/json", ResponseCt(r))
        THEN IF json.exc # "" THEN Raised(PyError(json.exc), TRUE)
             ELSE Returned(json.value, TRUE)
        ELSE IF r.status = NoContent THEN Returned(PyNone, FALSE)
        ELSE Raised(ODataError(UnsupportedMsg(ResponseCt(r))), FALSE)

\* execute_get, lines 117-126.
ExecuteGetResult(r) ==
    LET h == HandleODataError(r)
        json == ResponseJson(r)
    IN  IF h.exc.class # "" THEN Raised(h.exc, h.decoded)
        ELSE IF r.status = NoContent THEN Returned(PyNone, FALSE)
        ELSE IF Contains("application/json", ResponseCt(r))
        THEN IF json.exc # "" THEN Raised(PyError(json.exc), TRUE)
             ELSE Returned(json.value, TRUE)
        ELSE Raised(ODataError(UnsupportedMsg(ResponseCt(r))), FALSE)

\* execute_post, lines 140-146.
ExecutePostResult(r) ==
    LET h == HandleODataError(r)
        json == ResponseJson(r)
    IN  IF h.exc.class # "" THEN Raised(h.exc, h.decoded)
        ELSE IF r.status = NoContent THEN Returned(PyNone, FALSE)
        ELSE IF Contains("application/json", ResponseCt(r))
        THEN IF json.exc # "" THEN Raised(PyError(json.exc), TRUE)
             ELSE Returned(json.value, TRUE)
        ELSE Returned(PyNone, FALSE)

\* execute_patch returning the decoded body the way execute_post does.
ExecutePatchResultDecoding(r) ==
    LET h == HandleODataError(r)
        json == ResponseJson(r)
    IN  IF h.exc.class # "" THEN Raised(h.exc, h.decoded)
        ELSE IF r.status = NoContent THEN Returned(PyNone, FALSE)
        ELSE IF Contains("application/json", ResponseCt(r))
        THEN IF json.exc # "" THEN Raised(PyError(json.exc), TRUE)
             ELSE Returned(json.value, TRUE)
        ELSE Returned(PyNone, FALSE)

\* execute_patch, line 160.
ExecutePatchResult(r) ==
    LET h == HandleODataError(r)
    IN  IF h.exc.class # "" THEN Raised(h.exc, h.decoded)
        ELSE Returned(PyNone, FALSE)

\* execute_delete, line 169.
ExecuteDeleteResult(r) ==
    LET h == HandleODataError(r)
    IN  IF h.exc.class # "" THEN Raised(h.exc, h.decoded)
        ELSE Returned(PyNone, FALSE)

VerbResult(method, r) ==
    CASE method = "GET" -> ExecuteGetResult(r)
      [] method = "POST" -> ExecutePostResult(r)
      [] method = "PATCH" -> ExecutePatchResult(r)
      [] method = "DELETE" -> ExecuteDeleteResult(r)

(***************************************************************************)
(* The session and its retrying adapter.                                   *)
(***************************************************************************)
\* Retry(total=5, ...), line 41.
RetryTotal == 5

\* status_forcelist, line 42.
StatusForcelist == {429, 500, 502, 503, 504}

\* The Retry object of the adapter mounted at line 46; connect and read are
\* left at None, so connection and read errors count against total too.
MountedRetry ==
    [total |-> RetryTotal, read |-> TRUE, status_forcelist |-> StatusForcelist]

\* The Retry object of the adapters requests.Session() comes with,
\* Retry(0, read=False); it also stands for a supplied session, whose
\* request() is one exchange as far as the client can tell.
NoRetry == [total |-> 0, read |-> FALSE, status_forcelist |-> {}]

\* str.startswith
StartsWith(s, prefix) == SubSeq(s, 1, Len(prefix)) = prefix

\* The Retry object serving a request: Session.get_adapter picks the adapter
\* by URL prefix, and __init__ mounts its adapter on "https://" only.
AdapterRetry(sess, url) ==
    IF sess = "default" /\ StartsWith(url, "https://") THEN MountedRetry
    ELSE NoRetry

\* Retry.DEFAULT_ALLOWED_METHODS: allowed_methods is not passed at line 40.
AllowedMethods == {"DELETE", "GET", "HEAD", "OPTIONS", "PUT", "TRACE"}

\* Retry.RETRY_AFTER_STATUS_CODES: respect_retry_after_header is left True.
RetryAfterStatusCodes == {413, 429, 503}

\* Retry.is_retry(method, status_code, has_retry_after)
IsRetry(retry, method, status, has_retry_after) ==
    /\ method \in AllowedMethods
    /\ \/ status \in retry.status_forcelist
       \/ retry.total # 0 /\ has_retry_after /\ status \in RetryAfterStatusCodes

\* Whether Retry.increment(error=e) re-raises e at once: a read error is
\* retried only for an allowed method and unless read is False.
ReraisesError(retry, method, phase) ==
    phase = "read" /\ (~retry.read \/ method \notin AllowedMethods)

\* Retry.increment: one retry used up.
Increment(retry) == [retry EXCEPT !.total = retry.total - 1]

\* is_exhausted letting one more retry through.
IsExhaustedOneLate(retry) == retry.total < -1

\* Retry.is_exhausted
IsExhausted(retry) == retry.total < 0

\* The decorator catching requests.exceptions.ConnectionError only.
CatchConnectionErrorsOnly(e) ==
    IF e.class = "ConnectionError" THEN ODataConnectionError(e.msg)
    ELSE Exc(e.class, e.msg)

\* catch_requests_errors around _do: what the call raises when
\* session.request raises e.
CatchRequestsErrors(e) ==
    IF IsRequestException(e) THEN ODataConnectionError(e.msg)
    ELSE Exc(e.class, e.msg)

\* The exception requests raises when the retries on a status run out.
RetryError(r) ==
    Exc("RetryError", "too many " \o ToString(r.status) \o " error responses")

(***************************************************************************)
(* Header assembly.                                                        *)
(***************************************************************************)
\* odata.version, imported at line 13.
version == "0.3"

\* ODataConnection.base_headers as the class body leaves it.
InitialBaseHeaders ==
    [k \in {"Accept", "OData-Version", "User-Agent"} |->
        CASE k = "Accept" -> "application/json"
          [] k = "OData-Version" -> "4.0"
          [] k = "User-Agent" -> "python-odata " \o version]

NoHeaders == [k \in {} |-> ""]

ContentTypeJson == [k \in {"Content-Type"} |-> "application/json"]

\* "headers = self.base_headers; headers.update(own)": the class's dict
\* itself is filled in and sent.
BuildHeadersAliased(own, base) ==
    [headers |-> DictUpdate(base, own), base |-> DictUpdate(base, own)]

\* "headers = {...own...}; headers.update(self.base_headers)": the local
\* dict, and the class's dict after the two statements.
BuildHeaders(own, base) == [headers |-> DictUpdate(own, base), base |-> base]

\* ODataConnection.timeout
Timeout == 180

\* _do after _apply_options: what session.request is called with.  The
\* credential rides along untouched and is left out.
RequestEnvelope(method, url, headers) ==
    [method |-> method, url |-> url, headers |-> headers, timeout |-> Timeout]

NoRequest == RequestEnvelope("", "", NoHeaders)

(***************************************************************************)
(* What the callers ask for and what the network answers.                  *)
(***************************************************************************)
Urls == {"https://host/svc/Items", "http://host/svc/Items"}

\* The URL used where several calls are in flight at once.
SharedUrls == {"https://host/svc/Items"}

Empty == [k \in {} |-> JNull]

CodeMembers == {Empty, "code" :> JStr(""), "code" :> JStr("E1")}

MessageMembers == {Empty, "message" :> JStr(""), "message" :> JStr("bad")}

InnerErrorMembers ==
    {Empty,
     "innererror" :> JNull,
     "innererror" :> JStr("stack trace"),
     "innererror" :> JObj("message" :> JStr("")),
     "innererror" :> JObj("message" :> JStr("at line 3"))}

\* The "error" member as an object with any of its three members absent,
\* empty or filled in.
ErrorObjects ==
    {JObj(c @@ m @@ i) :
        c \in CodeMembers, m \in MessageMembers, i \in InnerErrorMembers}

\* An "error" member that is not an object of strings.
OddErrors ==
    {JNull, JStr("code"), JArr(<<JStr("innererror")>>),
     JObj("code" :> JNum(17))}

\* Bodies without an "error" member, and JSON values that are not objects.
OtherValues ==
    {JObj("value" :> JArr(<<JObj("id" :> JNum(1))>>)),
     JArr(<< >>), JArr(<<JStr("error")>>), JNum(5), JNull,
     JStr("an error occurred")}

Bodies ==
    {MalformedBody}
        \cup {JsonBody(JObj("error" :> e)) : e \in ErrorObjects \cup OddErrors}
        \cup {JsonBody(v) : v \in OtherValues}

\* Bodies that stand for the rest where the body is not taken apart.
PlainBodies ==
    {MalformedBody,
     JsonBody(JNull),
     JsonBody(JObj("value" :> JArr(<<JObj("id" :> JNum(1))>>))),
     JsonBody(JObj("error" :> JObj(("code" :> JStr("E1"))
                                   @@ ("message" :> JStr("bad"))))),
     JsonBody(JObj("error" :>
         JObj(("code" :> JStr("E1")) @@ ("message" :> JStr("bad"))
              @@ ("innererror" :> JObj("message" :> JStr("at line 3"))))))}

ResponseHeaders ==
    {NoHeaders,
     "content-type" :> "application/json",
     "content-type" :> "application/json; charset=utf-8",
     "content-type" :> "text/html",
     ("content-type" :> "text/html") @@ ("retry-after" :> "120")}

Statuses == {101, 200, 204, 304, 404, 413, 500, 503}

\* Every status with every header set, and every body where the code reads
\* it member by member (a failure status with a JSON content-type).
Responses ==
    [status : Statuses, headers : ResponseHeaders, body : PlainBodies]
        \cup [status : {404, 500},
              headers : {"content-type" :> "application/json"},
              body : Bodies]

\* The answers used where several calls are in flight at once.
SharedResponses ==
    [status : {200, 503},
     headers : {"content-type" :> "application/json"},
     body : {JsonBody(JObj("value" :> JArr(<< >>)))}]

\* What session.request can raise: requests' own exceptions, by the phase
\* of the exchange urllib3 saw them in, and one that is not a
\* RequestException (raised, say, by the caller's credential object).
TransportErrors ==
    {[class |-> "ConnectionError", msg |-> "Name or service not known",
      phase |-> "connect"],
     [class |-> "ConnectionError", msg |-> "Connection reset by peer",
      phase |-> "read"],
     [class |-> "ReadTimeout", msg |-> "Read timed out.", phase |-> "read"],
     [class |-> "SSLError", msg |-> "certificate verify failed",
      phase |-> "other"],
     [class |-> "RuntimeError", msg |-> "credential refused to sign",
      phase |-> "foreign"]}

SharedErrors == {e \in TransportErrors : e.phase = "connect"}

NoResponse == [status |-> 0, headers |-> NoHeaders, body |-> MalformedBody]

FirstAttempt ==
    [kind |-> "first", status |-> 0, retry_after |-> FALSE, phase |-> ""]

(***************************************************************************)
(* State.                                                                  *)
(***************************************************************************)
VARIABLES
    base_headers,   \* ODataConnection.base_headers, one dict for the class
    session,        \* per client: "default" (built by __init__) or "supplied"
    pc,             \* per client: "idle", "sending" or "done"
    request,        \* per client: what the call handed to session.request
    retry,          \* per client: the Retry object of the exchange under way
    attempts,       \* per client: requests put on the wire in that exchange
    cause,          \* per client: why the latest of them was sent
    response,       \* per client: the server's last answer, if the call
                    \* ended on one
    failure,        \* per client: the exception session.request raised, if
                    \* the call ended on one
    outcome         \* per client: how the call ended

vars ==
    <<base_headers, session, pc, request, retry, attempts, cause, response,
      failure, outcome>>

\* __init__: each client has its own session or the caller's.
Init ==
    /\ base_headers = InitialBaseHeaders
    /\ session \in [Clients -> {"default", "supplied"}]
    /\ pc = [c \in Clients |-> "idle"]
    /\ request = [c \in Clients |-> NoRequest]
    /\ retry = [c \in Clients |-> NoRetry]
    /\ attempts = [c \in Clients |-> 0]
    /\ cause = [c \in Clients |-> FirstAttempt]
    /\ response = [c \in Clients |-> NoResponse]
    /\ failure = [c \in Clients |-> NoExc]
    /\ outcome = [c \in Clients |-> Pending]

(***************************************************************************)
(* The calls.                                                              *)
(***************************************************************************)
\* A verb entry point up to session.request: the headers are assembled and
\* the first attempt goes out.
Dispatch(c, method, url, own) ==
    LET b == BuildHeaders(own, base_headers)
    IN  /\ pc[c] = "idle"
        /\ base_headers' = b.base
        /\ request' =
               [request EXCEPT ![c] = RequestEnvelope(method, url, b.headers)]
        /\ retry' = [retry EXCEPT ![c] = AdapterRetry(session[c], url)]
        /\ attempts' = [attempts EXCEPT ![c] = 1]
        /\ cause' = [cause EXCEPT ![c] = FirstAttempt]
        /\ pc' = [pc EXCEPT ![c] = "sending"]
        /\ UNCHANGED <<session, response, failure, outcome>>

ExecuteGet(c, U) == \E url \in U : Dispatch(c, "GET", url, NoHeaders)

ExecutePost(c, U) == \E url \in U : Dispatch(c, "POST", url, ContentTypeJson)

ExecutePatch(c, U) ==
    \E url \in U : Dispatch(c, "PATCH", url, ContentTypeJson)

ExecuteDelete(c, U) == \E url \in U : Dispatch(c, "DELETE", url, NoHeaders)

\* The adapter sees a status it retries and has a retry left: the request
\* goes out again.
RetryOnStatus(c, R) ==
    \E r \in R :
        /\ pc[c] = "sending"
        /\ IsRetry(retry[c], request[c].method, r.status,
                   "retry-after" \in DOMAIN r.headers)
        /\ ~IsExhausted(Increment(retry[c]))
        /\ retry' = [retry EXCEPT ![c] = Increment(retry[c])]
        /\ attempts' = [attempts EXCEPT ![c] = attempts[c] + 1]
        /\ cause' = [cause EXCEPT
                        ![c] = [kind |-> "status", status |-> r.status,
                                retry_after |->
                                    "retry-after" \in DOMAIN r.headers,
                                phase |-> ""]]
        /\ UNCHANGED <<base_headers, session, pc, request, response, failure,
                       outcome>>

\* The adapter sees a status it retries and has no retry left:
\* session.request raises RetryError, which _do turns into its own.
RetriesExhausted(c, R) ==
    \E r \in R :
        /\ pc[c] = "sending"
        /\ IsRetry(retry[c], request[c].method, r.status,
                   "retry-after" \in DOMAIN r.headers)
        /\ IsExhausted(Increment(retry[c]))
        /\ response' = [response EXCEPT ![c] = r]
        /\ failure' = [failure EXCEPT ![c] = RetryError(r)]
        /\ outcome' = [outcome EXCEPT
                          ![c] = Raised(CatchRequestsErrors(RetryError(r)),
                                        FALSE)]
        /\ pc' = [pc EXCEPT ![c] = "done"]
        /\ retry' = [retry EXCEPT ![c] = NoRetry]
        /\ attempts' = [attempts EXCEPT ![c] = 0]
        /\ cause' = [cause EXCEPT ![c] = FirstAttempt]
        /\ UNCHANGED <<base_headers, session, request>>

\* An attempt fails in the transport and the adapter has a retry left for
\* that kind of failure: the request goes out again.
RetryOnError(c, E) ==
    \E e \in E :
        /\ pc[c] = "sending"
        /\ e.phase # "foreign"
        /\ ~ReraisesError(retry[c], request[c].method, e.phase)
        /\ ~IsExhausted(Increment(retry[c]))
        /\ retry' = [retry EXCEPT ![c] = Increment(retry[c])]
        /\ attempts' = [attempts EXCEPT ![c] = attempts[c] + 1]
        /\ cause' = [cause EXCEPT
                        ![c] = [kind |-> "error", status |-> 0,
                                retry_after |-> FALSE, phase |-> e.phase]]
        /\ UNCHANGED <<base_headers, session, pc, request, response, failure,
                       outcome>>

\* session.request raises: _do's decorator decides what the call raises.
DoRaises(c, E) ==
    \E e \in E :
        /\ pc[c] = "sending"
        /\ \/ e.phase = "foreign"
           \/ ReraisesError(retry[c], request[c].method, e.phase)
           \/ IsExhausted(Increment(retry[c]))
        /\ response' = [response EXCEPT ![c] = NoResponse]
        /\ failure' = [failure EXCEPT ![c] = Exc(e.class, e.msg)]
        /\ outcome' = [outcome EXCEPT
                          ![c] = Raised(CatchRequestsErrors(e), FALSE)]
        /\ pc' = [pc EXCEPT ![c] = "done"]
        /\ retry' = [retry EXCEPT ![c] = NoRetry]
        /\ attempts' = [attempts EXCEPT ![c] = 0]
        /\ cause' = [cause EXCEPT ![c] = FirstAttempt]
        /\ UNCHANGED <<base_headers, session, request>>

\* session.request returns a response: the rest of the verb entry point
\* runs, _handle_odata_error first.
Deliver(c, R) ==
    \E r \in R :
        /\ pc[c] = "sending"
        /\ ~IsRetry(retry[c], request[c].method, r.status,
                    "retry-after" \in DOMAIN r.headers)
        /\ response' = [response EXCEPT ![c] = r]
        /\ failure' = [failure EXCEPT ![c] = NoExc]
        /\ outcome' = [outcome EXCEPT ![c] = VerbResult(request[c].method, r)]
        /\ pc' = [pc EXCEPT ![c] = "done"]
        /\ retry' = [retry EXCEPT ![c] = NoRetry]
        /\ attempts' = [attempts EXCEPT ![c] = 0]
        /\ cause' = [cause EXCEPT ![c] = FirstAttempt]
        /\ UNCHANGED <<base_headers, session, request>>

\* The caller has the result or the exception; the client is free again.
Complete(c) ==
    /\ pc[c] = "done"
    /\ pc' = [pc EXCEPT ![c] = "idle"]
    /\ request' = [request EXCEPT ![c] = NoRequest]
    /\ response' = [response EXCEPT ![c] = NoResponse]
    /\ failure' = [failure EXCEPT ![c] = NoExc]
    /\ outcome' = [outcome EXCEPT ![c] = Pending]
    /\ UNCHANGED <<base_headers, session, retry, attempts, cause>>

\* The calls are blocking: a single-threaded caller starts one when none is
\* in flight.
OthersIdle(c) == \A d \in Clients \ {c} : pc[d] = "idle"

Next ==
    \E c \in Clients :
        \/ OthersIdle(c) /\ ExecuteGet(c, Urls)
        \/ OthersIdle(c) /\ ExecutePost(c, Urls)
        \/ OthersIdle(c) /\ ExecutePatch(c, Urls)
        \/ OthersIdle(c) /\ ExecuteDelete(c, Urls)
        \/ RetryOnStatus(c, Responses)
        \/ RetriesExhausted(c, Responses)
        \/ RetryOnError(c, TransportErrors)
        \/ DoRaises(c, TransportErrors)
        \/ Deliver(c, Responses)
        \/ Complete(c)

Spec == Init /\ [][Next]_vars

\* Callers on several threads: calls on the clients interleave freely.
NextShared ==
    \E c \in Clients :
        \/ ExecuteGet(c, SharedUrls)
        \/ ExecutePost(c, SharedUrls)
        \/ ExecutePatch(c, SharedUrls)
        \/ ExecuteDelete(c, SharedUrls)
        \/ RetryOnStatus(c, SharedResponses)
        \/ RetriesExhausted(c, SharedResponses)
        \/ RetryOnError(c, SharedErrors)
        \/ DoRaises(c, SharedErrors)
        \/ Deliver(c, SharedResponses)
        \/ Complete(c)

SpecShared == Init /\ [][NextShared]_vars

(***************************************************************************)
(* Vocabulary of the properties.                                           *)
(***************************************************************************)
Done(c) == pc[c] = "done"

\* The call ended on an answer of the server.
Answered(c) == Done(c) /\ response[c].status # 0

\* The call ended on an exception of the transport.
Failed(c) == Done(c) /\ failure[c].class # ""

Method(c) == request[c].method

Status(c) == response[c].status

Ct(c) == IF "content-type" \in DOMAIN response[c].headers
         THEN response[c].headers["content-type"] ELSE ""

HasJsonCt(c) == Contains("application/json", Ct(c))

SuccessStatus(st) == 200 <= st /\ st <= 299

StatusLine(c) == "HTTP " \o ToString(Status(c))

IsTransportError(e) == e.class = "ODataConnectionError"

IsProtocolError(e) ==
    /\ e.class = "ODataError"
    /\ DOMAIN e.attrs = {"status_code", "code", "message", "detailed_message"}

UnsupportedPrefix == "Unsupported response Content-Type: "

IsUnsupportedContentTypeError(e) ==
    /\ e.class = "ODataError"
    /\ DOMAIN e.attrs = {}
    /\ SubSeq(e.msg, 1, Len(UnsupportedPrefix)) = UnsupportedPrefix

ReturnsNothingUndecoded(c) ==
    /\ outcome[c].kind = "return"
    /\ outcome[c].value = PyNone
    /\ outcome[c].exc.class = ""
    /\ ~outcome[c].decoded

\* The members of the body's "error" object, none when the content-type is
\* not JSON, the body does not parse, or there is no such object.
ErrorMembersOf(c) ==
    LET b == response[c].body
    IN  IF /\ HasJsonCt(c)
           /\ b.valid
           /\ b.value.t = "obj"
           /\ "error" \in DOMAIN b.value.m
           /\ b.value.m["error"].t = "obj"
        THEN b.value.m["error"].m
        ELSE Empty

InnerMembersOf(c) ==
    LET m == ErrorMembersOf(c)
    IN  IF "innererror" \in DOMAIN m /\ m["innererror"].t = "obj"
        THEN m["innererror"].m
        ELSE Empty

\* A member that is a string, "" when it is absent.
StrOf(m, key) == IF key \in DOMAIN m /\ m[key].t = "str" THEN m[key].s ELSE ""

\* No member the error is built from is anything but a string.
FieldsAreStrings(c) ==
    /\ \A k \in {"code", "message"} :
           k \in DOMAIN ErrorMembersOf(c) => ErrorMembersOf(c)[k].t = "str"
    /\ "message" \in DOMAIN InnerMembersOf(c)
           => InnerMembersOf(c)["message"].t = "str"

OrSentinel(str, sentinel) == IF str = "" THEN sentinel ELSE str

\* The body is {"error": {"code": c, "message": m, "innererror":
\* {"message": im}}} with c, m and im not empty.
WellFormedError(c) ==
    /\ StrOf(ErrorMembersOf(c), "code") # ""
    /\ StrOf(ErrorMembersOf(c), "message") # ""
    /\ StrOf(InnerMembersOf(c), "message") # ""

\* The error carries exactly these four components, and displays them
\* joined by " | ".
HasFields(e, line, code, message, detailed) ==
    /\ IsProtocolError(e)
    /\ e.attrs["status_code"] = line
    /\ e.attrs["code"] = code
    /\ e.attrs["message"] = message
    /\ e.attrs["detailed_message"] = detailed
    /\ e.msg = line \o " | " \o code \o " | " \o message \o " | " \o detailed

(***************************************************************************)
(* C1.                                                                     *)
(***************************************************************************)
\* C1, for the calls whose session returned a response (of any status,
\* content-type and body): the call ends by returning (the decoded JSON or
\* nothing) or by raising exactly one of TransportError, ProtocolError and
\* UnsupportedContentTypeError; no other kind of exception escapes.
C1_ReturnsOrRaisesOneOfThree ==
    \A c \in Clients :
        Answered(c) /\ ~Failed(c) =>
            \/ outcome[c].kind = "return" /\ outcome[c].exc.class = ""
            \/ /\ outcome[c].kind = "raise"
               /\ \/ IsTransportError(outcome[c].exc)
                  \/ IsProtocolError(outcome[c].exc)
                  \/ IsUnsupportedContentTypeError(outcome[c].exc)

(***************************************************************************)
(* C2.                                                                     *)
(***************************************************************************)
\* C2, for the statuses outside the success range that raise_for_status
\* reports too (4xx and 5xx): whenever the server answers with one, on any
\* session, the call raises a ProtocolError whose status line is
\* "HTTP <code>": no value, no other error.
C2_FailureStatusRaisesProtocolError ==
    \A c \in Clients :
        Answered(c) /\ 400 <= Status(c) /\ Status(c) <= 599 =>
            /\ outcome[c].kind = "raise"
            /\ IsProtocolError(outcome[c].exc)
            /\ outcome[c].exc.attrs["status_code"] = StatusLine(c)

C5_SentinelsAndStillProtocolError ==
    \A c \in Clients :
        /\ Answered(c)
        /\ ~Failed(c)
        /\ 400 <= Status(c)
        /\ Status(c) <= 599
        /\ FieldsAreStrings(c)
        =>
            /\ outcome[c].kind = "raise"
            /\ IsProtocolError(outcome[c].exc)
            /\ outcome[c].exc.attrs["code"] =
                   OrSentinel(StrOf(ErrorMembersOf(c), "code"), "None")
            /\ outcome[c].exc.attrs["message"] =
                   OrSentinel(StrOf(ErrorMembersOf(c), "message"),
                              "Server did not supply any error messages")
            /\ outcome[c].exc.attrs["detailed_message"] =
                   OrSentinel(StrOf(InnerMembersOf(c), "message"), "None")

(***************************************************************************)
(* C6.                                                                     *)
(***************************************************************************)
\* C6 as stated: a client with its own session sends an attempt after the
\* first only in reaction to a 429, 500, 502, 503 or 504, and never more
\* than 5 attempts in one call.
C6_AtMostFiveAttemptsOnStatusOnly ==
    \A c \in Clients :
        session[c] = "default" =>
            /\ attempts[c] <= 5
            /\ attempts[c] > 1 =>
                   cause[c].kind = "status"
                       /\ cause[c].status \in {429, 500, 502, 503, 504}

\* C6 amended: such a client sends an attempt after the first only in
\* reaction to a 429, 500, 502, 503 or 504, to a 413 that carries
\* Retry-After, or to an exception of the transport; never in reaction to a
\* success status; never more than 6 attempts (the first and 5 retries) for
\* one request; and only one over plaintext http.
C6_AtMostSixAttemptsOnStatusOrError ==
    \A c \in Clients :
        session[c] = "default" =>
            /\ attempts[c] <= 6
            /\ attempts[c] > 1 =>
                   /\ SubSeq(request[c].url, 1, 7) # "http://"
                   /\ \/ cause[c].kind = "error"
                      \/ /\ cause[c].kind = "status"
                         /\ ~SuccessStatus(cause[c].status)
                         /\ \/ cause[c].status \in {429, 500, 502, 503, 504}
                            \/ cause[c].status = 413 /\ cause[c].retry_after

\* The sixth attempt of a GET is on the wire after a fifth 503.
C6_Witness ==
    \E c \in Clients :
        /\ session[c] = "default"
        /\ pc[c] = "sending"
        /\ Method(c) = "GET"
        /\ attempts[c] = 6
        /\ cause[c].kind = "status"
        /\ cause[c].status = 503

(***************************************************************************)
(* C7.                                                                     *)
(***************************************************************************)
\* C7 as stated: every GET answer that is not a failure and whose
\* content-type does not contain application/json (or is missing) makes
\* execute_get raise UnsupportedContentTypeError naming the content-type.
C7_GetNonJsonRaisesUnsupported ==
    \A c \in Clients :
        /\ Answered(c)
        /\ Method(c) = "GET"
        /\ SuccessStatus(Status(c))
        /\ ~HasJsonCt(c)
        => /\ outcome[c].kind = "raise"
           /\ IsUnsupportedContentTypeError(outcome[c].exc)
           /\ outcome[c].exc.msg = UnsupportedPrefix \o Ct(c)

\* C7 amended: the same for every such answer whose status is not the
\* no-content status.
C7_GetNonJsonWithContentRaisesUnsupported ==
    \A c \in Clients :
        /\ Answered(c)
        /\ Method(c) = "GET"
        /\ SuccessStatus(Status(c))
        /\ Status(c) # 204
        /\ ~HasJsonCt(c)
        => /\ outcome[c].kind = "raise"
           /\ IsUnsupportedContentTypeError(outcome[c].exc)
           /\ outcome[c].exc.msg = UnsupportedPrefix \o Ct(c)

\* A GET answered 200 with text/html has raised.
C7_Witness ==
    \E c \in Clients :
        /\ Answered(c)
        /\ Method(c) = "GET"
        /\ Status(c) = 200
        /\ Ct(c) = "text/html"
        /\ outcome[c].exc.msg = "Unsupported response Content-Type: text/html"

(***************************************************************************)
(* C8.                                                                     *)
(***************************************************************************)
\* C8: for each verb, an answer with the no-content status, whatever its
\* content-type and body, makes the call return nothing and raise nothing,
\* the body never decoded.
C8_NoContentReturnsNothing ==
    \A c \in Clients :
        Answered(c) /\ Status(c) = 204 => ReturnsNothingUndecoded(c)

\* A GET answered 204 with a JSON content-type and a body that does not
\* parse has returned.
C8_Witness ==
    \E c \in Clients :
        /\ Answered(c)
        /\ Method(c) = "GET"
        /\ Status(c) = 204
        /\ HasJsonCt(c)
        /\ ~response[c].body.valid
        /\ outcome[c].kind = "return"

(***************************************************************************)
(* C9.                                                                     *)
(***************************************************************************)
\* C9: on a success status, execute_post returns nothing and raises nothing
\* when the content-type does not contain application/json, and
\* execute_patch and execute_delete return nothing and never decode the
\* body, whatever the content-type and the body.
C9_PostPatchDeleteReturnNothing ==
    \A c \in Clients :
        /\ Answered(c)
        /\ SuccessStatus(Status(c))
        /\ \/ Method(c) = "POST" /\ ~HasJsonCt(c)
           \/ Method(c) \in {"PATCH", "DELETE"}
        => ReturnsNothingUndecoded(c)

\* A PATCH answered 200 with a JSON content-type and a body that does not
\* parse has returned.
C9_Witness ==
    \E c \in Clients :
        /\ Answered(c)
        /\ Method(c) = "PATCH"
        /\ Status(c) = 200
        /\ HasJsonCt(c)
        /\ ~response[c].body.valid
        /\ outcome[c].kind = "return"

(***************************************************************************)
(* C10.                                                                    *)
(***************************************************************************)
\* The header map a request of the method has to carry.
ExpectedHeaders(method) ==
    [k \in {"Accept", "OData-Version", "User-Agent"}
            \cup (IF method \in {"POST", "PATCH"} THEN {"Content-Type"} ELSE {})
        |-> CASE k = "Accept" -> "application/json"
              [] k = "OData-Version" -> "4.0"
              [] k = "User-Agent" -> "python-odata " \o version
              [] k = "Content-Type" -> "application/json"]

\* C10: however the calls on the clients interleave and end, the shared
\* base header set stays Accept, OData-Version and User-Agent with their
\* first values, and every request carries that set, plus Content-Type:
\* application/json for POST and PATCH only.
C10_BaseHeadersNeverChange ==
    /\ DOMAIN base_headers = {"Accept", "OData-Version", "User-Agent"}
    /\ base_headers = ExpectedHeaders("GET")
    /\ \A c \in Clients :
           pc[c] # "idle" => request[c].headers = ExpectedHeaders(Method(c))

\* A GET is in flight on one client while a POST, sent with Content-Type
\* and already retried, is in flight on another.
C10_Witness ==
    \E c, d \in Clients :
        /\ c # d
        /\ pc[c] = "sending"
        /\ Method(c) = "POST"
        /\ attempts[c] > 1
        /\ "Content-Type" \in DOMAIN request[c].headers
        /\ pc[d] = "sending"
        /\ Method(d) = "GET"
        /\ "Content-Type" \notin DOMAIN request[d].headers

====
